---- MODULE Spec2Model ----
(***************************************************************************)
(* ct2mcnp: generation of an MCNP input deck from a CT volume.             *)
(* Model of src/ct2mcnp/generator.py: CTVoxel (threshold table, clipping,  *)
(* HU -> material index), Geometry (unit cell, phantom box, world sphere,  *)
(* fill directive, fill list), the section writers and MCNPGenerator.run.  *)
(*                                                                         *)
(* Lengths (spacing, plane positions, radii) are integers counting units   *)
(* of 1/Scale: self.spacing is np.around(.., 3) and every plane is written *)
(* with the format .3f.                                                    *)
(***************************************************************************)
EXTENDS Integers, Sequences, FiniteSets, TLC

VARIABLES
    pc,               \* position inside MCNPGenerator.run
    err,              \* kind of the exception that ended run, or "none"
    config,           \* run configuration: key -> "absent" | "None" | "set"
    material_config,  \* config['material']: materials in table order
    size,             \* ct.GetSize(): voxel counts (x, y, z)
    spacing,          \* CTVoxel.spacing, in units of 1/Scale
    array,            \* sitk.GetArrayFromImage(ct): multi-index -> intensity
    voxel,            \* the CTVoxel object
    geom,             \* the Geometry object
    source,           \* the Source object
    tally,            \* the Tally object
    out,              \* the OutControl object
    file,             \* the output file: the sequence of write events
    it,               \* multi_index of the np.nditer of Geometry.to_file
    accumulator       \* the running counter of Geometry.to_file

vars == <<pc, err, config, material_config, size, spacing, array, voxel, geom,
          source, tally, out, file, it, accumulator>>

----------------------------------------------------------------------------
(* Bounds of the model *)

MaxMaterials == 2
MaxSize == 3
MaxFillSize == 5

(* Constants of the program *)

Scale == 1000
WrapWidth == 20
WorldMargin == 100

----------------------------------------------------------------------------
(* Inputs *)

Boundaries == {-1000, 0, 3000}

HUSamples == <<-1500, -1000, -500, 0, 500, 2000, 3000, 5000>>

CardKeys == {"material", "mode", "source", "tally", "outcontrol"}

SeqsUpTo(S, n) == UNION {[1..k -> S] : k \in 1..n}

Range(s) == {s[i] : i \in DOMAIN s}

MaterialEntry(k, hu) ==
    [key |-> k, hu_interval |-> hu, density |-> -k,
     nucleon |-> <<1001, 8016>>, fraction |-> <<2, 1>>]

\* material tables of 1..MaxMaterials entries with distinct integer keys
MaterialConfigs(Intervals) ==
    {mc \in SeqsUpTo({MaterialEntry(k, hu) : k \in 1..MaxMaterials, hu \in Intervals},
                     MaxMaterials) :
        \A i, j \in DOMAIN mc : i # j => mc[i].key # mc[j].key}

\* an hu_interval is a point threshold or a [low, high] pair
AllIntervals ==
    {<<b>> : b \in Boundaries} \cup {<<a, b>> : a \in Boundaries, b \in Boundaries}

RunIntervals == {<<-1000, 0>>, <<0, 3000>>}

\* the array of an image of the given size has the axes reversed (z, y, x)
Shape(sz) == <<sz[3], sz[2], sz[1]>>

Indices(shape) == (0..shape[1]-1) \X (0..shape[2]-1) \X (0..shape[3]-1)

ArrayOf(sz, p) ==
    [idx \in Indices(Shape(sz)) |->
        HUSamples[((idx[1]*p[1] + idx[2]*p[2] + idx[3]*p[3] + p[4])
                   % Len(HUSamples)) + 1]]

Patterns == {<<1, 2, 3, 0>>, <<3, 5, 1, 4>>}

Sizes(n) == (1..n) \X (1..n) \X (1..n)

RunSizes == {<<1, 1, 1>>, <<2, 1, 2>>, <<3, 2, 1>>}

SpacingValues == {49, 125}

SpacingVectors == SpacingValues \X SpacingValues \X SpacingValues

SourceConfig ==
    << [key |-> "par", dist |-> FALSE, si |-> <<>>, sp |-> <<>>],
       [key |-> "erg", dist |-> TRUE, si |-> <<1, 2>>, sp |-> <<3, 7>>],
       [key |-> "pos", dist |-> FALSE, si |-> <<>>, sp |-> <<>>] >>

TallyConfig ==
    << [id |-> 1, de_df |-> TRUE, fm |-> TRUE],
       [id |-> 2, de_df |-> FALSE, fm |-> FALSE] >>

OutControlConfig == << [key |-> "nps"], [key |-> "prdmp"] >>

----------------------------------------------------------------------------
(* CTVoxel *)

Min(S) == CHOOSE x \in S : \A y \in S : x <= y
Max(S) == CHOOSE x \in S : \A y \in S : x >= y

RECURSIVE Concat(_)
Concat(ss) == IF ss = <<>> THEN <<>> ELSE Head(ss) \o Concat(Tail(ss))

\* raw.index(x): the first position of x
FirstIndex(raw, x) == Min({i \in DOMAIN raw : raw[i] = x})

\* list(set(raw)) sorted by raw.index: first-seen order, duplicates dropped
FirstSeen(raw) ==
    SelectSeq([i \in DOMAIN raw |-> <<i, raw[i]>>],
              LAMBDA e : FirstIndex(raw, e[2]) = e[1])

ParseMaterial(mc) ==
    LET raw == Concat([i \in DOMAIN mc |-> mc[i].hu_interval])
        fs  == FirstSeen(raw)
        ks  == {mc[i].key : i \in DOMAIN mc}
        last(k) == Max({i \in DOMAIN mc : mc[i].key = k})
    IN  [hu_interval   |-> [i \in DOMAIN fs |-> fs[i][2]],
         keys          |-> [i \in DOMAIN mc |-> mc[i].key],
         density_table |-> [k \in ks |-> mc[last(k)].density],
         element_table |-> [k \in ks |->
                              [j \in DOMAIN mc[last(k)].nucleon |->
                                 <<mc[last(k)].nucleon[j],
                                   mc[last(k)].fraction[j]>>]]]

Clip(v, lo, hi) == IF v < lo THEN lo ELSE IF v > hi THEN hi ELSE v

\* bisect.bisect_left on the list as stored (0-based lo, hi)
RECURSIVE BisectLoop(_, _, _, _)
BisectLoop(a, x, lo, hi) ==
    IF lo < hi
    THEN LET mid == (lo + hi) \div 2
         IN  IF a[mid + 1] < x
             THEN BisectLoop(a, x, mid + 1, hi)
             ELSE BisectLoop(a, x, lo, mid)
    ELSE lo

RECURSIVE BisectRightLoop(_, _, _, _)
BisectRightLoop(a, x, lo, hi) ==
    IF lo < hi
    THEN LET mid == (lo + hi) \div 2
         IN  IF x < a[mid + 1]
             THEN BisectRightLoop(a, x, lo, mid)
             ELSE BisectRightLoop(a, x, mid + 1, hi)
    ELSE lo

BisectRight(a, x) == BisectRightLoop(a, x, 0, Len(a))

BisectLeft(a, x) == BisectLoop(a, x, 0, Len(a))

\* stored as np.uint32: index <= len(hu_interval), far below 2^32
MaterialIndex(hu_interval, x) ==
    LET index == BisectLeft(hu_interval, x)
    IN  IF index = 0 THEN 1 ELSE index

ConvertHuToMaterial(hu_interval, arr) ==
    [idx \in DOMAIN arr |-> MaterialIndex(hu_interval, arr[idx])]

CTVoxel(arr, mc) ==
    LET t  == ParseMaterial(mc)
        lo == Min(Range(t.hu_interval))
        hi == Max(Range(t.hu_interval))
        clipped == [idx \in DOMAIN arr |-> Clip(arr[idx], lo, hi)]
    IN  [hu_interval   |-> t.hu_interval,
         keys          |-> t.keys,
         density_table |-> t.density_table,
         element_table |-> t.element_table,
         array         |-> clipped,
         index_map     |-> ConvertHuToMaterial(t.hu_interval, clipped)]

NoVoxel ==
    [hu_interval |-> <<>>, keys |-> <<>>, density_table |-> <<>>,
     element_table |-> <<>>, array |-> <<>>, index_map |-> <<>>]

----------------------------------------------------------------------------
(* Geometry *)

HalfSize(n) == n \div 2

\* the branches of _build_phantom_cell_surfaces, the same on the three axes
PhantomSurfaces(n, s) ==
    IF n % 2 = 0 THEN <<(n + 1) * s, (-n + 1) * s>> ELSE <<n * s, -n * s>>

PhantomFill(n) ==
    IF n % 2 = 0
    THEN <<-HalfSize(n) + 1, HalfSize(n)>>
    ELSE <<HalfSize(n), HalfSize(n)>>

PhantomLimitEvenUnshifted(n, s) == n * s

PhantomLimit(n, s) == IF n % 2 = 0 THEN (n + 1) * s ELSE n * s

PhantomOrigin(n, s) == IF n % 2 = 0 THEN (-n + 1) * s ELSE -n * s

BaseCellSurfaces(sp) == <<sp[1], -sp[1], sp[2], -sp[2], sp[3], -sp[3]>>

WorldRadius(sz, sp) ==
    Max({sz[a] * sp[a] : a \in 1..3}) + WorldMargin * Scale

Geometry(vox, sz, sp) ==
    [size          |-> sz,
     spacing       |-> sp,
     index_map     |-> vox.index_map,
     keys          |-> vox.keys,
     density_table |-> vox.density_table,
     base_cell_surfaces    |-> BaseCellSurfaces(sp),
     phantom_cell_surfaces |-> PhantomSurfaces(sz[1], sp[1])
                               \o PhantomSurfaces(sz[2], sp[2])
                               \o PhantomSurfaces(sz[3], sp[3]),
     fill           |-> [a \in 1..3 |-> PhantomFill(sz[a])],
     phantom_limit  |-> [a \in 1..3 |-> PhantomLimit(sz[a], sp[a])],
     phantom_origin |-> [a \in 1..3 |-> PhantomOrigin(sz[a], sp[a])],
     world_radius   |-> WorldRadius(sz, sp)]

NoGeometry ==
    [size |-> <<>>, spacing |-> <<>>, index_map |-> <<>>, keys |-> <<>>,
     density_table |-> <<>>, base_cell_surfaces |-> <<>>,
     phantom_cell_surfaces |-> <<>>, fill |-> <<>>, phantom_limit |-> <<>>,
     phantom_origin |-> <<>>, world_radius |-> 0]

----------------------------------------------------------------------------
(* Section writers: constructors *)

\* Source.__init__: si_sp_str is assigned only below the early return
RECURSIVE SourceLoop(_, _, _)
SourceLoop(cfg, i, s) ==
    IF i > Len(cfg) THEN s
    ELSE IF cfg[i].dist
         THEN SourceLoop(cfg, i + 1,
                  [s EXCEPT !.si_sp_id = @ + 1,
                            !.source_str = Append(@, <<cfg[i].key, s.si_sp_id + 1>>),
                            !.si_sp_str = Append(@, <<s.si_sp_id + 1,
                                                     Len(cfg[i].si), Len(cfg[i].sp)>>)])
         ELSE SourceLoop(cfg, i + 1,
                  [s EXCEPT !.source_str = Append(@, <<cfg[i].key, 0>>)])

Source(c) ==
    LET s0 == [source_str |-> << <<"SDEF", 0>> >>, si_sp_set |-> FALSE,
               si_sp_str |-> <<>>, si_sp_id |-> 0]
    IN  IF c = "None" THEN s0
        ELSE SourceLoop(SourceConfig, 1, [s0 EXCEPT !.si_sp_set = TRUE])

Tally(g, c) ==
    IF c = "None"
    THEN [config |-> <<>>, is_none |-> TRUE, size |-> <<>>,
          mesh_origin |-> <<>>, mesh_limit |-> <<>>]
    ELSE [config |-> TallyConfig, is_none |-> FALSE, size |-> g.size,
          mesh_origin |-> g.phantom_origin, mesh_limit |-> g.phantom_limit]

OutControl(c) ==
    [control_str |-> IF c = "None" THEN <<>>
                     ELSE [i \in DOMAIN OutControlConfig |-> OutControlConfig[i].key]]

NoSection == [unset |-> TRUE]

----------------------------------------------------------------------------
(* The output file: one event per card written *)

Ev(card, id, val, text) == [card |-> card, id |-> id, val |-> val, text |-> text]

DigitChars == <<"0", "1", "2", "3", "4", "5", "6", "7", "8", "9">>

\* str() of a non-negative integer
RECURSIVE Decimal(_)
Decimal(n) ==
    IF n < 10 THEN <<DigitChars[n + 1]>>
    ELSE Decimal(n \div 10) \o <<DigitChars[(n % 10) + 1]>>

\* Geometry.to_file, the cards before the fill list
GeometryCellCards(g) ==
    Concat([i \in DOMAIN g.keys |->
              << Ev("cell", g.keys[i], <<g.density_table[g.keys[i]]>>, <<>>),
                 Ev("void", g.keys[i], <<>>, <<>>) >>])
    \o << Ev("lattice", 998, <<>>, <<>>),
          Ev("fillrange", 998, Concat(g.fill), <<"\n", " ", " ", " ", " ">>) >>

Finished == <<>>

\* np.nditer.iternext on a C-contiguous array: the last axis runs fastest
IterNext(idx, shape) ==
    IF idx[3] + 1 < shape[3] THEN <<idx[1], idx[2], idx[3] + 1>>
    ELSE IF idx[2] + 1 < shape[2] THEN <<idx[1], idx[2] + 1, 0>>
    ELSE IF idx[1] + 1 < shape[1] THEN <<idx[1] + 1, 0, 0>>
    ELSE Finished

Prod(sz) == sz[1] * sz[2] * sz[3]

FillWritesFinalIf(g, idx, acc) ==
    << Ev("fill", 0, <<g.index_map[idx]>>, <<" ">> \o Decimal(g.index_map[idx])) >>
    \o (IF acc % WrapWidth = 0
        THEN << Ev("fill_newline", 0, <<>>, <<"\n", " ", " ", " ", " ">>) >>
        ELSE <<>>)
    \o (IF acc = Prod(g.size)
        THEN << Ev("fill_newline", 0, <<>>, <<"\n">>) >>
        ELSE <<>>)

\* one iteration of the loop of Geometry.to_file: the writes it makes
FillWrites(g, idx, acc) ==
    << Ev("fill", 0, <<g.index_map[idx]>>, <<" ">> \o Decimal(g.index_map[idx])) >>
    \o (IF acc % WrapWidth = 0 /\ acc # Prod(g.size)
        THEN << Ev("fill_newline", 0, <<>>, <<"\n", " ", " ", " ", " ">>) >>
        ELSE IF acc % WrapWidth = 0 /\ acc = Prod(g.size)
        THEN << Ev("fill_newline", 0, <<>>, <<"\n">>) >>
        ELSE IF acc = Prod(g.size)
        THEN << Ev("fill_newline", 0, <<>>, <<"\n">>) >>
        ELSE <<>>)

GeometryTailCardsSwapped(g) ==
    << Ev("world_cell", 1000, <<>>, <<>>),
       Ev("phantom_cell", 999, <<>>, <<>>),
       Ev("outer_void", 9999, <<>>, <<>>),
       Ev("blank_geom", 0, <<>>, <<"\n">>) >>
    \o [i \in 1..6 |-> Ev("phantom_surface", 110 + i, <<g.phantom_cell_surfaces[i]>>, <<>>)]
    \o [i \in 1..6 |-> Ev("base_surface", 10 + i, <<g.base_cell_surfaces[i]>>, <<>>)]
    \o << Ev("world_surface", 1000, <<g.world_radius>>, <<>>) >>

\* Geometry.to_file, the cards after the fill list
GeometryTailCards(g) ==
    << Ev("phantom_cell", 999, <<>>, <<>>),
       Ev("world_cell", 1000, <<>>, <<>>),
       Ev("outer_void", 9999, <<>>, <<>>),
       Ev("blank_geom", 0, <<>>, <<"\n">>) >>
    \o [i \in 1..6 |-> Ev("base_surface", 10 + i, <<g.base_cell_surfaces[i]>>, <<>>)]
    \o [i \in 1..6 |-> Ev("phantom_surface", 110 + i, <<g.phantom_cell_surfaces[i]>>, <<>>)]
    \o << Ev("world_surface", 1000, <<g.world_radius>>, <<>>) >>

\* Material.to_file: element_table.items() keeps the order of insertion
MaterialCards(vox) ==
    Concat([i \in DOMAIN vox.keys |->
              << Ev("material", vox.keys[i], <<>>, <<>>),
                 Ev("elements", vox.keys[i],
                    Concat(vox.element_table[vox.keys[i]]), <<>>) >>])

TallyCards(t) ==
    IF t.is_none THEN <<>>
    ELSE Concat([i \in DOMAIN t.config |->
           << Ev("fmesh", t.config[i].id, t.mesh_origin, <<>>),
              Ev("imesh", t.config[i].id, <<t.mesh_limit[1], t.size[1]>>, <<>>),
              Ev("jmesh", t.config[i].id, <<t.mesh_limit[2], t.size[2]>>, <<>>),
              Ev("kmesh", t.config[i].id, <<t.mesh_limit[3], t.size[3]>>, <<>>) >>
           \o (IF t.config[i].de_df
               THEN << Ev("de_df", t.config[i].id, <<>>, <<>>) >> ELSE <<>>)
           \o (IF t.config[i].fm
               THEN << Ev("fm", t.config[i].id, <<>>, <<>>) >> ELSE <<>>)])

----------------------------------------------------------------------------
(* MCNPGenerator.run: init_MC_module, then to_file *)

\* the assert of init_MC_module fails
InitMCModuleAssertFails ==
    /\ pc = "init"
    /\ ~(config["material"] # "absent" /\ config["mode"] # "absent")
    /\ err' = "AssertionError"
    /\ pc' = "failed"
    /\ UNCHANGED <<config, material_config, size, spacing, array, voxel, geom,
                   source, tally, out, file, it, accumulator>>

\* the assert holds; the cards that are not given become None
InitMCModuleDefaults ==
    /\ pc = "init"
    /\ config["material"] # "absent" /\ config["mode"] # "absent"
    /\ config' = [k \in CardKeys |->
                    IF k \in {"source", "tally", "outcontrol"} /\ config[k] = "absent"
                    THEN "None" ELSE config[k]]
    /\ pc' = "voxel"
    /\ UNCHANGED <<err, material_config, size, spacing, array, voxel, geom,
                   source, tally, out, file, it, accumulator>>

CTVoxelInit ==
    /\ pc = "voxel"
    /\ voxel' = CTVoxel(array, material_config)
    /\ pc' = "geom"
    /\ UNCHANGED <<err, config, material_config, size, spacing, array, geom,
                   source, tally, out, file, it, accumulator>>

GeometryInit ==
    /\ pc = "geom"
    /\ geom' = Geometry(voxel, size, spacing)
    /\ pc' = "sections"
    /\ UNCHANGED <<err, config, material_config, size, spacing, array, voxel,
                   source, tally, out, file, it, accumulator>>

SectionsInit ==
    /\ pc = "sections"
    /\ source' = Source(config["source"])
    /\ tally' = Tally(geom, config["tally"])
    /\ out' = OutControl(config["outcontrol"])
    /\ pc' = "open"
    /\ UNCHANGED <<err, config, material_config, size, spacing, array, voxel,
                   geom, file, it, accumulator>>

OpenFile ==
    /\ pc = "open"
    /\ file' = << Ev("c_geometry", 0, <<>>, <<>>) >>
    /\ pc' = "geo_cells"
    /\ UNCHANGED <<err, config, material_config, size, spacing, array, voxel,
                   geom, source, tally, out, it, accumulator>>

GeometryCells ==
    /\ pc = "geo_cells"
    /\ file' = file \o GeometryCellCards(geom)
    /\ accumulator' = 1
    /\ it' = <<0, 0, 0>>
    /\ pc' = "fill"
    /\ UNCHANGED <<err, config, material_config, size, spacing, array, voxel,
                   geom, source, tally, out>>

FillStep ==
    /\ pc = "fill"
    /\ it # Finished
    /\ file' = file \o FillWrites(geom, it, accumulator)
    /\ accumulator' = accumulator + 1
    /\ it' = IterNext(it, Shape(geom.size))
    /\ pc' = IF it' = Finished THEN "geo_tail" ELSE "fill"
    /\ UNCHANGED <<err, config, material_config, size, spacing, array, voxel,
                   geom, source, tally, out>>

GeometryTail ==
    /\ pc = "geo_tail"
    /\ file' = file \o GeometryTailCards(geom)
    /\ pc' = "data"
    /\ UNCHANGED <<err, config, material_config, size, spacing, array, voxel,
                   geom, source, tally, out, it, accumulator>>

DataHeader ==
    /\ pc = "data"
    /\ file' = file \o << Ev("blank_sections", 0, <<>>, <<"\n">>),
                          Ev("c_data", 0, <<>>, <<>>) >>
    /\ pc' = "material"
    /\ UNCHANGED <<err, config, material_config, size, spacing, array, voxel,
                   geom, source, tally, out, it, accumulator>>

MaterialToFile ==
    /\ pc = "material"
    /\ file' = file \o MaterialCards(voxel)
    /\ pc' = "source"
    /\ UNCHANGED <<err, config, material_config, size, spacing, array, voxel,
                   geom, source, tally, out, it, accumulator>>

\* source_str is written, then si_sp_str is read: AttributeError when unset
SourceToFile ==
    /\ pc = "source"
    /\ IF source.si_sp_set
       THEN /\ file' = file \o << Ev("sdef", 0, <<Len(source.source_str)>>, <<>>),
                                  Ev("si_sp", 0, <<Len(source.si_sp_str)>>, <<>>) >>
            /\ pc' = "tally"
            /\ err' = err
       ELSE /\ file' = Append(file, Ev("sdef", 0, <<Len(source.source_str)>>, <<>>))
            /\ pc' = "failed"
            /\ err' = "AttributeError"
    /\ UNCHANGED <<config, material_config, size, spacing, array, voxel,
                   geom, source, tally, out, it, accumulator>>

TallyToFile ==
    /\ pc = "tally"
    /\ file' = file \o TallyCards(tally)
    /\ pc' = "outcontrol"
    /\ UNCHANGED <<err, config, material_config, size, spacing, array, voxel,
                   geom, source, tally, out, it, accumulator>>

OutControlToFile ==
    /\ pc = "outcontrol"
    /\ file' = file \o << Ev("outcontrol", 0, <<Len(out.control_str)>>, <<>>),
                          Ev("blank_end", 0, <<>>, <<"\n">>) >>
    /\ pc' = "done"
    /\ UNCHANGED <<err, config, material_config, size, spacing, array, voxel,
                   geom, source, tally, out, it, accumulator>>

----------------------------------------------------------------------------
(* Specifications *)

\* MCNPGenerator.run on a run configuration with any subset of the keys
Init ==
    /\ pc = "init"
    /\ err = "none"
    /\ config \in [CardKeys -> {"absent", "set"}]
    /\ IF config["material"] = "absent"
       THEN material_config = <<>>
       ELSE material_config \in MaterialConfigs(RunIntervals)
    /\ size \in RunSizes
    /\ spacing = <<49, 49, 125>>
    /\ array = ArrayOf(size, <<1, 2, 3, 0>>)
    /\ voxel = NoVoxel
    /\ geom = NoGeometry
    /\ source = NoSection /\ tally = NoSection /\ out = NoSection
    /\ file = <<>>
    /\ it = Finished
    /\ accumulator = 0

Next ==
    \/ InitMCModuleAssertFails
    \/ InitMCModuleDefaults
    \/ CTVoxelInit
    \/ GeometryInit
    \/ SectionsInit
    \/ OpenFile
    \/ GeometryCells
    \/ FillStep
    \/ GeometryTail
    \/ DataHeader
    \/ MaterialToFile
    \/ SourceToFile
    \/ TallyToFile
    \/ OutControlToFile

Spec == Init /\ [][Next]_vars

AllSet == [k \in CardKeys |-> "set"]

\* CTVoxel on one intensity sample, every material table
InitVoxel ==
    /\ pc = "voxel"
    /\ err = "none"
    /\ config = AllSet
    /\ material_config \in MaterialConfigs(AllIntervals)
    /\ size = <<1, 1, 1>>
    /\ spacing = <<49, 49, 125>>
    /\ \E v \in Range(HUSamples) : array = [idx \in Indices(Shape(size)) |-> v]
    /\ voxel = NoVoxel
    /\ geom = NoGeometry
    /\ source = NoSection /\ tally = NoSection /\ out = NoSection
    /\ file = <<>>
    /\ it = Finished
    /\ accumulator = 0

NextVoxel == CTVoxelInit

SpecVoxel == InitVoxel /\ [][NextVoxel]_vars

TwoMaterials == << MaterialEntry(1, <<-1000, 0>>), MaterialEntry(2, <<0, 3000>>) >>

\* Geometry and the writers, every size and spacing, from the built CTVoxel
InitGeom ==
    /\ pc = "geom"
    /\ err = "none"
    /\ config \in {c \in [CardKeys -> {"None", "set"}] :
                     c["material"] = "set" /\ c["mode"] = "set"}
    /\ material_config = TwoMaterials
    /\ size \in Sizes(MaxSize)
    /\ spacing \in SpacingVectors
    /\ array = ArrayOf(size, <<1, 2, 3, 0>>)
    /\ voxel = CTVoxel(array, material_config)
    /\ geom = NoGeometry
    /\ source = NoSection /\ tally = NoSection /\ out = NoSection
    /\ file = <<>>
    /\ it = Finished
    /\ accumulator = 0

NextGeom ==
    \/ GeometryInit
    \/ SectionsInit
    \/ OpenFile
    \/ GeometryCells
    \/ FillStep
    \/ GeometryTail
    \/ DataHeader
    \/ MaterialToFile
    \/ SourceToFile
    \/ TallyToFile
    \/ OutControlToFile

SpecGeom == InitGeom /\ [][NextGeom]_vars

\* the fill list of Geometry.to_file, volumes of up to MaxFillSize^3 voxels
InitFill ==
    /\ pc = "geo_cells"
    /\ err = "none"
    /\ config = AllSet
    /\ material_config = TwoMaterials
    /\ size \in Sizes(MaxFillSize)
    /\ spacing = <<49, 49, 125>>
    /\ \E p \in Patterns : array = ArrayOf(size, p)
    /\ voxel = CTVoxel(array, material_config)
    /\ geom = Geometry(voxel, size, spacing)
    /\ source = Source("set") /\ tally = Tally(geom, "set") /\ out = OutControl("set")
    /\ file = << Ev("c_geometry", 0, <<>>, <<>>) >>
    /\ it = Finished
    /\ accumulator = 0

NextFill ==
    \/ GeometryCells
    \/ FillStep

SpecFill == InitFill /\ [][NextFill]_vars

----------------------------------------------------------------------------
(* Helpers of the properties *)

Abs(x) == IF x < 0 THEN -x ELSE x

VoxelBuilt == pc \notin {"init", "voxel"} /\ err # "AssertionError"

GeomBuilt == VoxelBuilt /\ pc # "geom"

\* the boundaries of the configuration, as a set
InputBoundaries ==
    UNION {Range(material_config[i].hu_interval) : i \in DOMAIN material_config}

Ascending(a) == \A i, j \in DOMAIN a : i < j => a[i] < a[j]

Cards(c) == SelectSeq(file, LAMBDA e : e.card = c)

\* the text of the fill list: what the loop of Geometry.to_file wrote
FillText ==
    Concat([i \in DOMAIN file |->
              IF file[i].card \in {"fill", "fill_newline"} THEN file[i].text ELSE <<>>])

\* text.split(sep): the pieces between the separators
RECURSIVE SplitLoop(_, _, _, _)
SplitLoop(text, seps, i, cur) ==
    IF i > Len(text) THEN << cur >>
    ELSE IF text[i] \in seps
         THEN << cur >> \o SplitLoop(text, seps, i + 1, <<>>)
         ELSE SplitLoop(text, seps, i + 1, Append(cur, text[i]))

Split(text, seps) == SplitLoop(text, seps, 1, <<>>)

\* text.split(): the non-empty pieces between runs of whitespace
Tokens(text) == SelectSeq(Split(text, {" ", "\n"}), LAMBDA t : t # <<>>)

DigitValue(ch) == CHOOSE d \in 0..9 : DigitChars[d + 1] = ch

RECURSIVE ParseInt(_)
ParseInt(t) ==
    IF Len(t) = 1 THEN DigitValue(t[1])
    ELSE 10 * ParseInt(SubSeq(t, 1, Len(t) - 1)) + DigitValue(t[Len(t)])

\* the k-th multi-index (k from 0) of a volume in natural order
MultiIndex(k, shape) ==
    << k \div (shape[2] * shape[3]), (k \div shape[3]) % shape[2], k % shape[3] >>

----------------------------------------------------------------------------
(* C1 *)

\* C1 as stated: an intensity below the lowest boundary is clipped to it and
\* gets material index 1; an intensity above the highest boundary is clipped
\* to it and gets material index len(boundaries).
C1_ClipIndexAsStated ==
    VoxelBuilt =>
        \A idx \in DOMAIN array :
            LET lo == Min(InputBoundaries)
                hi == Max(InputBoundaries)
            IN  /\ array[idx] < lo =>
                      voxel.array[idx] = lo /\ voxel.index_map[idx] = 1
                /\ array[idx] > hi =>
                      /\ voxel.array[idx] = hi
                      /\ voxel.index_map[idx] = Cardinality(InputBoundaries)

\* C1 amended: below the lowest boundary the clipped value is that boundary
\* and the index is 1; above the highest boundary the clipped value is that
\* boundary and the index lies in 1..len(boundaries), and is
\* max(1, len(boundaries) - 1) when the table is stored in ascending order.
C1_ClipIndexAmended ==
    VoxelBuilt =>
        \A idx \in DOMAIN array :
            LET lo == Min(InputBoundaries)
                hi == Max(InputBoundaries)
                n  == Cardinality(InputBoundaries)
            IN  /\ array[idx] < lo =>
                      voxel.array[idx] = lo /\ voxel.index_map[idx] = 1
                /\ array[idx] > hi =>
                      /\ voxel.array[idx] = hi
                      /\ voxel.index_map[idx] \in 1..n
                      /\ Ascending(voxel.hu_interval) =>
                             voxel.index_map[idx] = Max({1, n - 1})

C1_Witness ==
    /\ VoxelBuilt
    /\ voxel.hu_interval = <<-1000, 0, 3000>>
    /\ array[<<0, 0, 0>>] = 5000
    /\ voxel.array[<<0, 0, 0>>] = 3000
    /\ voxel.index_map[<<0, 0, 0>>] = 2

----------------------------------------------------------------------------
(* C9 *)

\* C9: for every table, also one not in ascending order, the material index
\* is max(1, k), k the number of distinct boundaries strictly below the
\* clipped intensity.
C9_LeftInsertionPoint ==
    VoxelBuilt =>
        \A idx \in DOMAIN array :
            LET c == Clip(array[idx], Min(InputBoundaries), Max(InputBoundaries))
                k == Cardinality({b \in InputBoundaries : b < c})
            IN  voxel.index_map[idx] = Max({1, k})

----------------------------------------------------------------------------
(* C2 *)

\* C2: on each axis the fill range of the 'fill=' directive is
\* [-half+1, half] for an even voxel count and [-half, half] for an odd one.
C2_FillRange ==
    GeomBuilt =>
        /\ \A a \in 1..3 :
             LET half == size[a] \div 2
             IN  geom.fill[a] = IF size[a] % 2 = 0 THEN <<-half + 1, half>>
                                ELSE <<-half, half>>
        /\ \A i \in DOMAIN file :
             file[i].card = "fillrange" => file[i].val = Concat(geom.fill)

----------------------------------------------------------------------------
(* C5 *)

\* C5: the world sphere radius is at least the margin larger than the
\* absolute position of every plane of the phantom box.
C5_WorldMargin ==
    GeomBuilt =>
        \A a \in 1..3 :
            /\ geom.world_radius >= Abs(geom.phantom_limit[a]) + WorldMargin * Scale
            /\ geom.world_radius >= Abs(geom.phantom_origin[a]) + WorldMargin * Scale

----------------------------------------------------------------------------
(* C10 *)

EmittedPlane(k) ==
    (CHOOSE e \in Range(file) : e.card = "phantom_surface" /\ e.id = k).val[1]

\* C10: on each axis the phantom box is n unit cells wide (a unit cell spans
\* -spacing..+spacing); it is [(-n+1)*spacing, (n+1)*spacing] for even n and
\* [-n*spacing, n*spacing] for odd n; the tally mesh gets the positions of
\* the emitted phantom planes.
C10_PhantomBox ==
    GeomBuilt =>
        /\ \A a \in 1..3 :
             LET n == size[a]
                 s == spacing[a]
                 w == geom.base_cell_surfaces[2*a - 1] - geom.base_cell_surfaces[2*a]
             IN  /\ w = 2 * s
                 /\ geom.phantom_limit[a] - geom.phantom_origin[a] = n * w
                 /\ n % 2 = 0 => /\ geom.phantom_origin[a] = (-n + 1) * s
                                 /\ geom.phantom_limit[a] = (n + 1) * s
                 /\ n % 2 = 1 => /\ geom.phantom_origin[a] = -n * s
                                 /\ geom.phantom_limit[a] = n * s
                 /\ geom.phantom_cell_surfaces[2*a - 1] = geom.phantom_limit[a]
                 /\ geom.phantom_cell_surfaces[2*a] = geom.phantom_origin[a]
        /\ \A i \in DOMAIN file :
             /\ file[i].card = "fmesh" =>
                  file[i].val = <<EmittedPlane(112), EmittedPlane(114), EmittedPlane(116)>>
             /\ file[i].card = "imesh" => file[i].val[1] = EmittedPlane(111)
             /\ file[i].card = "jmesh" => file[i].val[1] = EmittedPlane(113)
             /\ file[i].card = "kmesh" => file[i].val[1] = EmittedPlane(115)

C10_Witness ==
    /\ pc = "done"
    /\ size = <<2, 3, 1>>
    /\ Len(Cards("fmesh")) = 2
    /\ Len(Cards("phantom_surface")) = 6
    /\ geom.phantom_limit[1] - geom.phantom_origin[1] = 4 * spacing[1]
    /\ geom.phantom_limit[2] - geom.phantom_origin[2] = 6 * spacing[2]

----------------------------------------------------------------------------
(* C3 *)

\* the values written so far, and the volume in natural order up to there
Written == accumulator - 1

NaturalOrder(n) ==
    [k \in 1..n |-> voxel.index_map[MultiIndex(k - 1, Shape(size))]]

\* the number of values on each line of the text
ValuesPerLine(text) ==
    LET lines == Split(text, {"\n"})
    IN  [i \in DOMAIN lines |-> Len(Tokens(lines[i]))]

\* C3: the fill-list text, split on whitespace, is the Material-Index Volume
\* in natural order (outermost axis slowest); a line break follows every
\* 20th value and the last value: every line but the last holds 20 values,
\* the last 1 to 20, and exactly one newline follows the last value.
C3_FillList ==
    pc \in {"fill", "geo_tail"} =>
        LET text  == FillText
            toks  == Tokens(text)
            count == ValuesPerLine(text)
        IN  /\ [i \in DOMAIN toks |-> ParseInt(toks[i])] = NaturalOrder(Written)
            /\ \A i \in 1..(Len(count) - 2) : count[i] = WrapWidth
            /\ pc = "fill" =>
                 \/ Len(count) = 1
                 \/ count[Len(count) - 1] = WrapWidth
            /\ pc = "geo_tail" =>
                 /\ Written = Prod(size)
                 /\ Len(count) >= 2
                 /\ count[Len(count)] = 0
                 /\ text[Len(text)] = "\n"
                 /\ count[Len(count) - 1] \in 1..WrapWidth
                 /\ Len(count) - 1 = (Prod(size) + WrapWidth - 1) \div WrapWidth

C3_Witness ==
    /\ pc = "geo_tail"
    /\ Prod(size) = 2 * WrapWidth
    /\ ValuesPerLine(FillText) = <<WrapWidth, WrapWidth, 0>>
    /\ \E i, j \in DOMAIN voxel.index_map : voxel.index_map[i] # voxel.index_map[j]

----------------------------------------------------------------------------
(* C4 *)

\* C4: every value of the Material-Index Volume lies in 1..len(boundaries)
\* and has an entry in the density table and in the composition table; a
\* configuration for which this fails is rejected with MaterialKeyError
\* before anything is written.
C4_IndicesHaveMaterials ==
    VoxelBuilt =>
        \/ \A idx \in DOMAIN voxel.index_map :
             /\ voxel.index_map[idx] \in 1..Cardinality(InputBoundaries)
             /\ voxel.index_map[idx] \in DOMAIN voxel.density_table
             /\ voxel.index_map[idx] \in DOMAIN voxel.element_table
        \/ err = "MaterialKeyError" /\ file = <<>>

----------------------------------------------------------------------------
(* C6 *)

\* C6: with 'material' and 'mode' but neither 'source' nor 'tally', run
\* raises no failure and writes every section through the final blank line;
\* the file holds an SDEF block and no fmesh block.
C6_NoSourceNoTallyCompletes ==
    ( /\ config["material"] # "absent" /\ config["mode"] # "absent"
      /\ config["source"] \in {"absent", "None"}
      /\ config["tally"] \in {"absent", "None"} ) =>
        /\ err = "none"
        /\ pc # "failed"
        /\ pc = "done" =>
             /\ Len(Cards("sdef")) = 1
             /\ Len(Cards("fmesh")) = 0
             /\ file[Len(file)].card = "blank_end"

----------------------------------------------------------------------------
(* C7 *)

\* C7: without 'material' or without 'mode' the generation fails with
\* ConfigurationError; with both, the missing 'source', 'tally' and
\* 'outcontrol' become absent (None) and no ConfigurationError is raised.
C7_ConfigurationError ==
    pc # "init" =>
        IF config["material"] = "absent" \/ config["mode"] = "absent"
        THEN pc = "failed" /\ err = "ConfigurationError"
        ELSE /\ err # "ConfigurationError"
             /\ \A k \in {"source", "tally", "outcontrol"} : config[k] # "absent"

----------------------------------------------------------------------------
(* C8 *)

CardGroup(c) ==
    CASE c = "c_geometry" -> 1
      [] c \in {"cell", "void"} -> 2
      [] c \in {"lattice", "fillrange"} -> 3
      [] c \in {"fill", "fill_newline"} -> 4
      [] c = "phantom_cell" -> 5
      [] c = "world_cell" -> 6
      [] c = "outer_void" -> 7
      [] c = "blank_geom" -> 8
      [] c = "base_surface" -> 9
      [] c = "phantom_surface" -> 10
      [] c = "world_surface" -> 11
      [] c = "blank_sections" -> 12
      [] c = "c_data" -> 13
      [] c \in {"material", "elements"} -> 14
      [] c \in {"sdef", "si_sp"} -> 15
      [] c \in {"fmesh", "imesh", "jmesh", "kmesh", "de_df", "fm"} -> 16
      [] c = "outcontrol" -> 17
      [] c = "blank_end" -> 18

\* the cell section the configuration asks for: per key, cell then void
ExpectedCells ==
    Concat([i \in DOMAIN material_config |->
              << <<"cell", material_config[i].key>>,
                 <<"void", material_config[i].key>> >>])

\* C8: the cards are written in the fixed order of the groups; each
\* material's cell card is immediately followed by its void cell, in table
\* order; no card of a later group precedes a card of an earlier group.
C8_CardOrder ==
    /\ \A i \in 1..(Len(file) - 1) :
         CardGroup(file[i].card) <= CardGroup(file[i + 1].card)
    /\ pc \notin {"init", "voxel", "geom", "sections", "open", "geo_cells"}
       /\ err # "AssertionError" =>
         /\ file[1].card = "c_geometry"
         /\ LET cells == SelectSeq(file, LAMBDA e : CardGroup(e.card) = 2)
            IN  [i \in DOMAIN cells |-> <<cells[i].card, cells[i].id>>] = ExpectedCells
         /\ Len(Cards("lattice")) = 1 /\ Len(Cards("fillrange")) = 1
    /\ pc \in {"material", "source", "tally", "outcontrol", "done"} =>
         /\ Len(Cards("fill")) = Prod(size)
         /\ Len(Cards("phantom_cell")) = 1
         /\ Len(Cards("world_cell")) = 1
         /\ Len(Cards("outer_void")) = 1
         /\ Len(Cards("blank_geom")) = 1
         /\ [i \in 1..6 |-> Cards("base_surface")[i].id] = <<11, 12, 13, 14, 15, 16>>
         /\ [i \in 1..6 |-> Cards("phantom_surface")[i].id]
                = <<111, 112, 113, 114, 115, 116>>
         /\ Len(Cards("world_surface")) = 1
         /\ Len(Cards("c_data")) = 1
    /\ pc = "done" =>
         /\ Len(Cards("material")) = Len(material_config)
         /\ Len(Cards("sdef")) = 1
         /\ Len(Cards("outcontrol")) = 1
         /\ file[Len(file)].card = "blank_end"

C8_Witness ==
    /\ pc = "done"
    /\ Len(material_config) = 2
    /\ Len(Cards("fmesh")) = 2
    /\ Len(Cards("si_sp")) = 1
    /\ Len(Cards("fill")) = 6

====
